---- MODULE Spec2Model ----
(***************************************************************************)
(* Credential and CSRF life-cycle of the Shopify OAuth2 backend:           *)
(*   - StateStore  (src/src/database.rs): oauth_states table               *)
(*   - TokenStore  (src/src/database.rs): shopify_tokens table + cipher    *)
(*   - auth_handler / oauth_callback / proxy handlers (src/src/main.rs,    *)
(*     src/src/shopify_api.rs, src/src/abandoned_checkouts.rs)             *)
(*                                                                         *)
(* Time is counted in seconds.  Two clocks exist in the code: the          *)
(* application's Utc::now() (appNow) and the database's NOW() (dbNow).     *)
(* Both advance in steps of SweepPeriod seconds and may differ by at most  *)
(* MaxSkew steps.                                                          *)
(*                                                                         *)
(* Every SQL statement is one atomic step.  The store operations are       *)
(* modelled for the case that the statement is executed by the database;   *)
(* the handlers additionally carry the Err arms the code has for a         *)
(* statement that could not be executed.  store_state reads the clock of   *)
(* the application when it is called and awaits its INSERT afterwards:     *)
(* the call and the INSERT are two steps, and the clocks and the other     *)
(* calls go on in between.                                                 *)
(*                                                                         *)
(* A String is a sequence of UTF-8 bytes.  The values of the model are     *)
(* written with one character per byte; the two bytes of a two-byte        *)
(* character are written "^" (its first byte) and "$" (its continuation    *)
(* byte).  The arguments of info!, warn! and error! are evaluated only     *)
(* when the subscriber records that level (log_level).                     *)
(***************************************************************************)
EXTENDS Integers, Sequences, FiniteSets, TLC

VARIABLES
    appNow,          \* Utc::now() of the application process
    dbNow,           \* NOW() of the database
    oauth_states,    \* rows of table oauth_states
    shopify_tokens,  \* rows of table shopify_tokens
    key,             \* the encryption key the running process was started with
    issued,          \* history: per state token, the last successful store_state
    consumed,        \* history: state tokens validated since their last store
    lastOp,          \* the operation executed last, with its arguments and result
    deleted,         \* history: shops whose token was deleted and not stored since
    caller,          \* concurrent callers of a store operation
    req,             \* oauth_callback requests in flight
    instant,         \* std::time::Instant::now() of the process, in seconds
    memory_store,    \* RateLimiter.memory_store: identifier -> (count, timestamp)
    asked,           \* history: per identifier, the calls of its current window
    sweeper,         \* the background task spawned in main for the sweep
    log_level,       \* the most verbose level the tracing subscriber records
    inserts          \* per state token, the INSERT a store_state call awaits

vars == <<appNow, dbNow, oauth_states, shopify_tokens, key, issued, consumed,
          lastOp, deleted, caller, req, instant, memory_store, asked, sweeper,
          log_level, inserts>>

----------------------------------------------------------------------------
(* Bounds of the model *)

\* clock values range over 0 .. MaxTime steps
MaxTime == 3
\* store_state is tried with ttl_seconds of 0 .. MaxTTL steps
MaxTTL == 2
\* the two clocks differ by at most MaxSkew steps
MaxSkew == 1
\* number of concurrent callers of validate_and_remove_state
NumCallers == 2
\* number of /callback requests
NumRequests == 2
\* Instant::now() runs from 0 to MaxInstant * InstantStep
MaxInstant == 4
\* the limits passed to check_rate_limit are 0 .. MaxLimit
MaxLimit == 2
\* calls of check_rate_limit per identifier and window
MaxCalls == 3

(* Program constants *)

\* tokio::time::interval(Duration::from_secs(300)): one step of the clocks
SweepPeriod == 300
\* store_state(&csrf_state, 600)
CsrfTtl == 600
\* &state_token[..8], &received_state[..8], &code[..8]
LogPrefixLen == 8
\* &token_response.access_token[..12]
TokenPrefixLen == 12
\* seconds an entry of the in-memory rate limiter lives (middleware.rs)
RateWindow == 60

----------------------------------------------------------------------------
(* Values *)

\* uuid::Uuid::new_v4().to_string(): 36 characters
UuidTokens == {"7c9e6679-7425-40de-944b-e07fc1f90ae7",
               "0f8fad5b-d9cb-469f-a165-70867728950e"}
\* a state parameter an attacker or a broken client can send
ShortState == "abc"
StateParams == UuidTokens \cup {ShortState}
\* "aaaaaaa" followed by one two-byte character: 9 bytes, the 8th byte offset
\* falls inside the character
OddState == "aaaaaaa^$"
\* the bytes 0x80 .. 0xBF as the values of the model write them
ContinuationBytes == {"$"}

None == "none"

\* the configured shop (SHOP) and another shop domain
ConfigShop == "test-shop.myshopify.com"
Shops == {ConfigShop, "other-shop.myshopify.com"}

\* 32-byte encryption keys (ENCRYPTION_KEY)
Keys == {"abcdefghijklmnopqrstuvwxyz123456", "ZYXWVUTSRQPONMLKJIHGFEDCBA654321"}

\* values of the random 96-bit nonce
Nonces == {"nonce-1", "nonce-2"}

\* access tokens returned by the token exchange; the second is shorter
\* than the 12 bytes the success page slices
AccessTokens == {"shpat_test_token_123", "shpat_tiny"}

Scopes == {"read_orders,read_checkouts", "read_orders"}

\* authorization codes; the second is shorter than the 8 bytes that are logged
Codes == {"test_authorization_code", "abc123"}

Requests == 1 .. NumRequests
IdleRequest == [pc |-> "idle", state |-> None, code |-> None, shop |-> None,
                shop_param |-> None, csrf |-> None, exchanged |-> "no",
                access_token |-> None, scope |-> None, stored |-> FALSE,
                resp |-> None]

NoIssue == [ttl |-> -1, exp |-> -1]
\* no store_state call is awaiting its INSERT
NoInsert == [ttl |-> -1, exp |-> -1]
NoOp == [op |-> "init", arg |-> None, res |-> None, pre |-> None]

Callers == 1 .. NumCallers
IdleCaller == [pc |-> "idle", tok |-> None, res |-> None,
               timely |-> FALSE, raced |-> FALSE]

----------------------------------------------------------------------------
(* Clocks *)

Abs(x) == IF x < 0 THEN -x ELSE x

SkewOk(a, d) == Abs(a - d) <= MaxSkew * SweepPeriod

TickApp ==
    /\ appNow + SweepPeriod <= MaxTime * SweepPeriod
    /\ SkewOk(appNow + SweepPeriod, dbNow)
    /\ appNow' = appNow + SweepPeriod
    /\ UNCHANGED <<dbNow, oauth_states, shopify_tokens, key, issued, consumed,
                   lastOp, deleted, caller, req,
                   instant, memory_store, asked, sweeper, log_level, inserts>>

TickDb ==
    /\ dbNow + SweepPeriod <= MaxTime * SweepPeriod
    /\ SkewOk(appNow, dbNow + SweepPeriod)
    /\ dbNow' = dbNow + SweepPeriod
    /\ UNCHANGED <<appNow, oauth_states, shopify_tokens, key, issued, consumed,
                   lastOp, deleted, caller, req,
                   instant, memory_store, asked, sweeper, log_level, inserts>>

----------------------------------------------------------------------------
(* Logging *)

\* no subscriber is installed (a process that never calls fmt::init(), or
\* RUST_LOG=off): no level is recorded
NoSubscriber == "OFF"

\* what the subscriber records: nothing, or every level up to the named one;
\* RUST_LOG unset gives INFO, and debug and trace record INFO as well
LogLevels == {NoSubscriber, "ERROR", "WARN", "INFO"}

Verbosity(level) ==
    CASE level = NoSubscriber -> 0
      [] level = "ERROR" -> 1
      [] level = "WARN" -> 2
      [] level = "INFO" -> 3

\* error!, warn! and info! evaluate their arguments only for a level the
\* subscriber records
LevelEnabled(level) == Verbosity(level) <= Verbosity(log_level)

\* str::is_char_boundary: 0 and len are boundaries, an offset beyond len is
\* none, and an offset inside is one unless a continuation byte is there
IsCharBoundary(s, n) ==
    IF n = 0 THEN TRUE
    ELSE IF n >= Len(s) THEN n = Len(s)
    ELSE SubSeq(s, n + 1, n + 1) \notin ContinuationBytes

\* &s[..n] panics when s is shorter than n bytes or when byte offset n is
\* not a character boundary
SlicePanics(s, n) == ~IsCharBoundary(s, n)

----------------------------------------------------------------------------
(* StateStore *)

\* let expires_at = Utc::now() + chrono::Duration::seconds(ttl_seconds);
ExpiresAt(ttl) == appNow + ttl

\* state_token is the unique key of oauth_states
StateTokenTaken(tok) == \E r \in oauth_states : r.state_token = tok

\* a store_state call whose INSERT has not run yet
InFlight(tok) == inserts[tok] # NoInsert

\* store_state up to its await: expires_at is computed from the clock of the
\* application, bound to the INSERT, and the INSERT is sent
store_state(tok, ttl) ==
    /\ ~InFlight(tok)
    /\ inserts' = [inserts EXCEPT
                     ![tok] = [ttl |-> ttl, exp |-> ExpiresAt(ttl)]]
    /\ UNCHANGED <<oauth_states, issued, consumed, lastOp>>

\* INSERT INTO oauth_states (state_token, expires_at) VALUES ($1, $2), with
\* the expires_at the call has bound
InsertState(tok) ==
    oauth_states \cup {[state_token |-> tok, expires_at |-> inserts[tok].exp]}

\* result of store_state once the INSERT has run: the info! line slices
\* the first 8 bytes of the token
StoreStateResult(tok) ==
    IF LevelEnabled("INFO") /\ SlicePanics(tok, LogPrefixLen)
    THEN "panic" ELSE "Ok"

\* .execute(&self.pool).await?: the database runs the INSERT, a state_token
\* already stored is an Err, and store_state returns
store_state_await(tok) ==
    /\ InFlight(tok)
    /\ inserts' = [inserts EXCEPT ![tok] = NoInsert]
    /\ IF StateTokenTaken(tok)
       THEN /\ lastOp' = [op |-> "store_state", arg |-> tok, res |-> "Err",
                          pre |-> inserts[tok]]
            /\ UNCHANGED <<oauth_states, issued, consumed>>
       ELSE /\ oauth_states' = InsertState(tok)
            /\ lastOp' = [op |-> "store_state", arg |-> tok,
                          res |-> StoreStateResult(tok), pre |-> inserts[tok]]
            /\ issued' = [issued EXCEPT ![tok] = inserts[tok]]
            /\ consumed' = consumed \ {tok}

\* a WHERE clause that also accepts a row expiring exactly now
StateRowValidInclusive(r, tok) == r.state_token = tok /\ r.expires_at >= dbNow

\* a WHERE clause without the expiry condition, relying on the sweep
StateRowValidNoExpiry(r, tok) == r.state_token = tok

\* WHERE state_token = $1 AND expires_at > NOW()
StateRowValid(r, tok) == r.state_token = tok /\ r.expires_at > dbNow

\* a DELETE whose WHERE clause lost its state_token condition
DeletedStatesAnyToken(tok) == {r \in oauth_states : r.expires_at > dbNow}

\* a DELETE that also clears away every expired row it comes across
DeletedStatesWithExpired(tok) ==
    {r \in oauth_states : StateRowValid(r, tok) \/ r.expires_at <= dbNow}

\* the rows the DELETE removes
DeletedStates(tok) == {r \in oauth_states : StateRowValid(r, tok)}

\* a validation that checks the row and leaves it in place
StatesKept(tok) == oauth_states

\* DELETE FROM oauth_states WHERE ...
StatesAfterValidate(tok) == oauth_states \ DeletedStates(tok)

\* let is_valid = result.rows_affected() > 0;
IsValid(tok) == Cardinality(DeletedStates(tok)) > 0

\* result of validate_and_remove_state once the DELETE has run: the info!
\* line of a valid token and the warn! line of an invalid one slice the
\* first 8 bytes of the token
ValidateResult(tok) ==
    IF IsValid(tok)
    THEN IF LevelEnabled("INFO") /\ SlicePanics(tok, LogPrefixLen)
         THEN "panic" ELSE "Ok(true)"
    ELSE IF LevelEnabled("WARN") /\ SlicePanics(tok, LogPrefixLen)
         THEN "panic" ELSE "Ok(false)"

IssuedOf(tok) == IF tok \in UuidTokens THEN issued[tok] ELSE NoIssue

validate_and_remove_state(tok) ==
    /\ oauth_states' = StatesAfterValidate(tok)
    /\ consumed' = IF IsValid(tok) THEN consumed \cup {tok} ELSE consumed
    /\ lastOp' = [op |-> "validate_and_remove_state", arg |-> tok,
                  res |-> ValidateResult(tok),
                  pre |-> [rows |-> {r \in oauth_states : r.state_token = tok},
                           now |-> dbNow,
                           consumed |-> tok \in consumed,
                           issued |-> IssuedOf(tok)]]
    /\ UNCHANGED issued

TtlChoices == {k * SweepPeriod : k \in 0 .. MaxTTL}

\* let csrf_state = uuid::Uuid::new_v4().to_string(): the token store_state
\* is called with is one no call was made with before
FreshUuids == {t \in UuidTokens : issued[t] = NoIssue /\ ~InFlight(t)}

\* a call of store_state, up to the await of its INSERT
StoreState ==
    \E tok \in FreshUuids, ttl \in TtlChoices :
        /\ store_state(tok, ttl)
        /\ UNCHANGED <<appNow, dbNow, shopify_tokens, key, deleted, caller, req,
                       instant, memory_store, asked, sweeper, log_level>>

\* the INSERT of a call runs and the call returns
StoreStateAwait ==
    \E tok \in UuidTokens :
        /\ store_state_await(tok)
        /\ UNCHANGED <<appNow, dbNow, shopify_tokens, key, deleted, caller, req,
                       instant, memory_store, asked, sweeper, log_level>>

ValidateState ==
    \E tok \in StateParams :
        /\ validate_and_remove_state(tok)
        /\ UNCHANGED <<appNow, dbNow, shopify_tokens, key, deleted, caller, req,
                       instant, memory_store, asked, sweeper, log_level,
                       inserts>>

\* a validation of a token that auth_handler can have issued
ValidateUuid ==
    \E tok \in UuidTokens :
        /\ validate_and_remove_state(tok)
        /\ UNCHANGED <<appNow, dbNow, shopify_tokens, key, deleted, caller, req,
                       instant, memory_store, asked, sweeper, log_level,
                       inserts>>

\* a validation of a token whose eighth byte offset is inside a character
ValidateOddState ==
    /\ validate_and_remove_state(OddState)
    /\ UNCHANGED <<appNow, dbNow, shopify_tokens, key, deleted, caller, req,
                   instant, memory_store, asked, sweeper, log_level, inserts>>

\* the SQL function cleanup_expired_oauth_states(): the records it deletes,
\* those with expires_at <= now
ExpiredStates == {r \in oauth_states : r.expires_at <= dbNow}

\* a wrapper that reports the records left instead of the records deleted
CleanupCountRemaining == Cardinality(oauth_states \ ExpiredStates)

\* let deleted_count = result.0.unwrap_or(0) as u64;
CleanupCount == Cardinality(ExpiredStates)

\* a wrapper that counts the expired records and leaves them stored
cleanup_expired_states_counting ==
    /\ lastOp' = [op |-> "cleanup_expired_states", arg |-> None,
                  res |-> CleanupCount,
                  pre |-> [rows |-> oauth_states, now |-> dbNow]]
    /\ UNCHANGED <<oauth_states, issued, consumed>>

\* SELECT cleanup_expired_oauth_states() as deleted_count
cleanup_expired_states ==
    /\ oauth_states' = oauth_states \ ExpiredStates
    /\ lastOp' = [op |-> "cleanup_expired_states", arg |-> None,
                  res |-> CleanupCount,
                  pre |-> [rows |-> oauth_states, now |-> dbNow]]
    /\ UNCHANGED <<issued, consumed>>

\* an iteration that only logs and never calls the store
cleanup_iteration_skipped(dbOk) ==
    /\ lastOp' = [op |-> "cleanup_task", arg |-> None, res |-> "Err",
                  pre |-> [rows |-> oauth_states, now |-> dbNow]]
    /\ UNCHANGED <<oauth_states, issued, consumed>>

\* one iteration of the background task after interval.tick().await:
\* cleanup_expired_states().await, an Err is logged and the loop goes on
cleanup_iteration(dbOk) ==
    IF dbOk
    THEN cleanup_expired_states
    ELSE /\ lastOp' = [op |-> "cleanup_task", arg |-> None, res |-> "Err",
                       pre |-> [rows |-> oauth_states, now |-> dbNow]]
         /\ UNCHANGED <<oauth_states, issued, consumed>>

\* the task as tokio::spawn leaves it: in its loop, no iteration failed yet
Spawned == [state |-> "running", failed |-> FALSE, odd |-> FALSE]

\* a task whose iteration propagates the error with ? and so ends
TaskAfterPropagates(dbOk) ==
    [state |-> IF dbOk THEN "running" ELSE "stopped",
     failed |-> sweeper.failed \/ ~dbOk, odd |-> ~sweeper.odd]

\* the end of an iteration: if let Err(e) = .. { error!(..) } and the loop
\* goes back to interval.tick().await whatever the result was; odd tells
\* whether the interval has ticked an odd number of times, so that an
\* iteration is a step of the task even when it finds nothing to change
TaskAfter(dbOk) ==
    [state |-> "running", failed |-> sweeper.failed \/ ~dbOk,
     odd |-> ~sweeper.odd]

cleanup_task ==
    \E dbOk \in BOOLEAN :
        /\ sweeper.state = "running"
        /\ cleanup_iteration(dbOk)
        /\ sweeper' = TaskAfter(dbOk)
        /\ UNCHANGED <<appNow, dbNow, shopify_tokens, key, deleted, caller, req,
                       instant, memory_store, asked, log_level, inserts>>

\* the TTL /auth passes, and the TTL of a state that is expired when stored
IssueTtls == {0, CsrfTtl}

\* a call of store_state as /auth makes it, up to the await of its INSERT;
\* the expires_at lies within the range of the clocks
IssueState ==
    \E tok \in FreshUuids, ttl \in IssueTtls :
        /\ ExpiresAt(ttl) <= MaxTime * SweepPeriod
        /\ store_state(tok, ttl)
        /\ UNCHANGED <<appNow, dbNow, shopify_tokens, key, deleted, caller, req,
                       instant, memory_store, asked, sweeper, log_level>>

----------------------------------------------------------------------------
(* TokenEncryption: AES-256-GCM, modelled symbolically.  The sealed part can
   be opened only with the key and the nonce it was sealed with. *)

\* key_bytes.len() != 32
KeyLen == 32
\* combined.len() < 12; split_at(12)
NonceLen == 12
\* the AES-GCM authentication tag appended to the ciphertext: 16 bytes
TagLen == 16

\* values of ENCRYPTION_KEY an operator can set: the two 32-byte keys and
\* keys of 0, 9, 16, 31 and 33 bytes
KeyCandidates ==
    Keys \cup {"", "short_key", "0123456789abcdef",
               "abcdefghijklmnopqrstuvwxyz12345",
               "abcdefghijklmnopqrstuvwxyz1234567"}

\* a constructor that only rejects keys that are too short
TokenEncryptionNewAtLeast(k) ==
    IF Len(k) < KeyLen
    THEN [tag |-> "Err", val |-> "Encryption key must be exactly 32 bytes"]
    ELSE [tag |-> "Ok", val |-> k]

\* TokenEncryption::new: Ok(cipher for the key) or Err
TokenEncryptionNew(k) ==
    IF Len(k) # KeyLen
    THEN [tag |-> "Err", val |-> "Encryption key must be exactly 32 bytes"]
    ELSE [tag |-> "Ok", val |-> k]

\* an encrypt that returns the ciphertext without the nonce in front of it
EncryptDropsNonce(k, plaintext, nonce) ==
    [nonce |-> "lost", len |-> Len(plaintext) + TagLen,
     sealed |-> [key |-> k, nonce |-> nonce, plaintext |-> plaintext]]

\* encrypt of the cipher built from k: nonce || ciphertext+tag, base64-encoded
EncryptWith(k, plaintext, nonce) ==
    [nonce |-> nonce, len |-> NonceLen + Len(plaintext) + TagLen,
     sealed |-> [key |-> k, nonce |-> nonce, plaintext |-> plaintext]]

encrypt(plaintext, nonce) == EncryptWith(key, plaintext, nonce)

\* a decryption that does not check the authentication tag
TagUnchecked(k, encrypted) == TRUE

\* the authentication tag verifies under the cipher built from k
TagVerifiesWith(k, encrypted) ==
    encrypted.sealed.key = k /\ encrypted.sealed.nonce = encrypted.nonce

TagVerifies(encrypted) == TagVerifiesWith(key, encrypted)

\* decrypt of the cipher built from k
DecryptWith(k, encrypted) ==
    IF encrypted.len < NonceLen
    THEN [tag |-> "Err", val |-> "Invalid encrypted data"]
    ELSE IF TagVerifiesWith(k, encrypted)
    THEN [tag |-> "Ok", val |-> encrypted.sealed.plaintext]
    ELSE [tag |-> "Err", val |-> "Decryption failed"]

decrypt(encrypted) == DecryptWith(key, encrypted)

\* plaintexts: the tokens of the tests and the empty string
Plaintexts == AccessTokens \cup {"shpat_test_token_12345", ""}

\* two ciphers are built from two keys, the first encrypts and the second
\* decrypts (test_token_encryption_decryption with one key,
\* test_encryption_with_different_keys with two)
cipher_round ==
    \E k1 \in KeyCandidates, k2 \in KeyCandidates,
       plaintext \in Plaintexts, nonce \in Nonces :
        LET encryption1 == TokenEncryptionNew(k1)
            encryption2 == TokenEncryptionNew(k2)
        IN  /\ lastOp' =
                 [op |-> "cipher_round",
                  arg |-> [key1 |-> k1, key2 |-> k2, plaintext |-> plaintext],
                  res |-> IF encryption1.tag = "Err" \/ encryption2.tag = "Err"
                          THEN [tag |-> "Err", val |-> "no cipher"]
                          ELSE DecryptWith(encryption2.val,
                                   EncryptWith(encryption1.val, plaintext, nonce)),
                  pre |-> [new1 |-> encryption1.tag, new2 |-> encryption2.tag,
                           encrypted |-> encryption1.tag = "Ok"]]
            /\ UNCHANGED <<appNow, dbNow, oauth_states, shopify_tokens, key,
                           issued, consumed, deleted, caller, req,
                           instant, memory_store, asked, sweeper, log_level,
                           inserts>>

\* TokenStore::new(pool, &config.database.encryption_key)? in main: the
\* process starts with the store for the key, or exits (no store: key = None)
token_store_new ==
    \E k \in KeyCandidates :
        LET encryption == TokenEncryptionNew(k)
        IN  /\ key' = IF encryption.tag = "Ok" THEN encryption.val ELSE None
            /\ lastOp' = [op |-> "TokenStore::new", arg |-> k,
                          res |-> encryption.tag, pre |-> None]
            /\ UNCHANGED <<appNow, dbNow, oauth_states, shopify_tokens, issued,
                           consumed, deleted, caller, req,
                           instant, memory_store, asked, sweeper, log_level,
                           inserts>>

----------------------------------------------------------------------------
(* TokenStore *)

TokenRows(shop) == {r \in shopify_tokens : r.shop_domain = shop}

\* default of the updated_at column for an inserted row
DefaultUpdatedAt == dbNow

NewTokenRow(shop, enc, scope) ==
    [shop_domain |-> shop, encrypted_access_token |-> enc, scope |-> scope,
     updated_at |-> DefaultUpdatedAt]

\* an INSERT without the ON CONFLICT clause
PlainInsertToken(shop, enc, scope) ==
    shopify_tokens \cup {NewTokenRow(shop, enc, scope)}

\* an upsert that leaves the row of an existing shop as it is (DO NOTHING)
UpsertKeepsOld(shop, enc, scope) ==
    IF TokenRows(shop) = {}
    THEN shopify_tokens \cup {NewTokenRow(shop, enc, scope)}
    ELSE shopify_tokens

\* an upsert that adds the new scope to the scope the row has
UpsertMergesScope(shop, enc, scope) ==
    IF TokenRows(shop) = {}
    THEN shopify_tokens \cup {NewTokenRow(shop, enc, scope)}
    ELSE {IF r.shop_domain = shop
          THEN [r EXCEPT !.encrypted_access_token = enc,
                         !.scope = r.scope \o "," \o scope,
                         !.updated_at = dbNow]
          ELSE r : r \in shopify_tokens}

\* an upsert whose DO UPDATE sets the token and leaves the scope of the row
UpsertTokenOnly(shop, enc, scope) ==
    IF TokenRows(shop) = {}
    THEN shopify_tokens \cup {NewTokenRow(shop, enc, scope)}
    ELSE {IF r.shop_domain = shop
          THEN [r EXCEPT !.encrypted_access_token = enc, !.updated_at = dbNow]
          ELSE r : r \in shopify_tokens}

\* an upsert whose DO UPDATE does not touch updated_at
UpsertKeepsUpdatedAt(shop, enc, scope) ==
    IF TokenRows(shop) = {}
    THEN shopify_tokens \cup {NewTokenRow(shop, enc, scope)}
    ELSE {IF r.shop_domain = shop
          THEN [r EXCEPT !.encrypted_access_token = enc, !.scope = scope]
          ELSE r : r \in shopify_tokens}

\* INSERT ... ON CONFLICT (shop_domain) DO UPDATE SET
\*   encrypted_access_token = EXCLUDED..., scope = EXCLUDED..., updated_at = NOW()
UpsertToken(shop, enc, scope) ==
    IF TokenRows(shop) = {}
    THEN shopify_tokens \cup {NewTokenRow(shop, enc, scope)}
    ELSE {IF r.shop_domain = shop
          THEN [r EXCEPT !.encrypted_access_token = enc, !.scope = scope,
                         !.updated_at = dbNow]
          ELSE r : r \in shopify_tokens}

\* the plaintext sealed in the row a shop has, for the history in lastOp
SealedFor(shop) ==
    IF TokenRows(shop) = {} THEN None
    ELSE (CHOOSE r \in TokenRows(shop) : TRUE).encrypted_access_token.sealed.plaintext

\* the scope in the row a shop has, for the history in lastOp
ScopeFor(shop) ==
    IF TokenRows(shop) = {} THEN None
    ELSE (CHOOSE r \in TokenRows(shop) : TRUE).scope

\* the second half of store_token: the statement, executed by the database
\* in one piece, and Ok(())
execute_upsert(shop, encrypted_token, access_token, scope) ==
    /\ shopify_tokens' = UpsertToken(shop, encrypted_token, scope)
    /\ deleted' = deleted \ {shop}
    /\ lastOp' = [op |-> "store_token", arg |-> shop, res |-> "Ok",
                  pre |-> [token |-> access_token, scope |-> scope,
                           had |-> SealedFor(shop), hadScope |-> ScopeFor(shop),
                           now |-> dbNow]]

\* let encrypted_token = self.encryption.encrypt(access_token)?; then the
\* statement
store_token(shop, access_token, scope, nonce) ==
    execute_upsert(shop, encrypt(access_token, nonce), access_token, scope)

\* the shops that have a record
StoredShops == {r.shop_domain : r \in shopify_tokens}

\* updated_at of the record of a shop
UpdatedAt(shop) == (CHOOSE r \in TokenRows(shop) : TRUE).updated_at

\* SELECT shop_domain FROM shopify_tokens ORDER BY updated_at DESC: the
\* orders the database may return; rows of equal updated_at come in any order
ListShops ==
    {l \in [1 .. Cardinality(StoredShops) -> StoredShops] :
        /\ \A i, j \in DOMAIN l : i # j => l[i] # l[j]
        /\ \A i, j \in DOMAIN l : i < j => UpdatedAt(l[i]) >= UpdatedAt(l[j])}

\* history: the store_token that was the operation before this one
LastStore ==
    IF lastOp.op = "store_token"
    THEN [shop |-> lastOp.arg, at |-> lastOp.pre.now,
          again |-> lastOp.pre.had # None]
    ELSE [shop |-> None, at |-> -1, again |-> FALSE]

list_shops ==
    \E dbOk \in BOOLEAN :
        /\ IF dbOk
           THEN \E l \in ListShops :
                    lastOp' = [op |-> "list_shops", arg |-> None,
                               res |-> [tag |-> "Ok", shops |-> l],
                               pre |-> [rows |-> shopify_tokens,
                                        prev |-> LastStore]]
           ELSE lastOp' = [op |-> "list_shops", arg |-> None,
                           res |-> [tag |-> "Err", shops |-> <<>>],
                           pre |-> [rows |-> shopify_tokens,
                                    prev |-> LastStore]]
        /\ UNCHANGED <<appNow, dbNow, oauth_states, shopify_tokens, key, issued,
                       consumed, deleted, caller, req, instant, memory_store,
                       asked, sweeper, log_level, inserts>>

\* a lookup that treats a missing row as an error (fetch_one)
GetTokenFetchOne(shop) ==
    IF TokenRows(shop) = {} THEN [tag |-> "Err", val |-> "RowNotFound"]
    ELSE LET d == decrypt((CHOOSE r \in TokenRows(shop) : TRUE).encrypted_access_token)
         IN  IF d.tag = "Ok" THEN [tag |-> "Some", val |-> d.val] ELSE d

\* SELECT encrypted_access_token ... WHERE shop_domain = $1; fetch_optional;
\* Some(row) => decrypt(..)?; None => Ok(None)
GetToken(shop) ==
    IF TokenRows(shop) = {} THEN [tag |-> "None", val |-> None]
    ELSE LET d == decrypt((CHOOSE r \in TokenRows(shop) : TRUE).encrypted_access_token)
         IN  IF d.tag = "Ok" THEN [tag |-> "Some", val |-> d.val] ELSE d

get_token(shop) ==
    /\ lastOp' = [op |-> "get_token", arg |-> shop, res |-> GetToken(shop),
                  pre |-> [rows |-> TokenRows(shop), deleted |-> shop \in deleted]]
    /\ UNCHANGED <<shopify_tokens, deleted>>

\* a delete that reports success whatever it removed
DeleteAlwaysTrue(shop) == "Ok(true)"

\* Ok(result.rows_affected() > 0)
DeleteTokenResult(shop) ==
    IF Cardinality(TokenRows(shop)) > 0 THEN "Ok(true)" ELSE "Ok(false)"

\* DELETE FROM shopify_tokens WHERE shop_domain = $1
delete_token(shop) ==
    /\ shopify_tokens' = shopify_tokens \ TokenRows(shop)
    /\ deleted' = IF TokenRows(shop) # {} THEN deleted \cup {shop} ELSE deleted
    /\ lastOp' = [op |-> "delete_token", arg |-> shop,
                  res |-> DeleteTokenResult(shop),
                  pre |-> [rows |-> TokenRows(shop), deleted |-> shop \in deleted]]

StoreToken ==
    \E shop \in Shops, t \in AccessTokens, sc \in Scopes, n \in Nonces :
        /\ store_token(shop, t, sc, n)
        /\ UNCHANGED <<appNow, dbNow, oauth_states, key, issued, consumed,
                       caller, req,
                       instant, memory_store, asked, sweeper, log_level,
                       inserts>>

GetTokenCall ==
    \E shop \in Shops :
        /\ get_token(shop)
        /\ UNCHANGED <<appNow, dbNow, oauth_states, key, issued, consumed,
                       caller, req,
                       instant, memory_store, asked, sweeper, log_level,
                       inserts>>

DeleteToken ==
    \E shop \in Shops :
        /\ delete_token(shop)
        /\ UNCHANGED <<appNow, dbNow, oauth_states, key, issued, consumed,
                       caller, req,
                       instant, memory_store, asked, sweeper, log_level,
                       inserts>>

\* the process is started (again) with the key of its environment:
\* TokenStore::new(pool, &config.database.encryption_key)
Restart ==
    \E k \in Keys :
        /\ k # key
        /\ key' = k
        /\ lastOp' = [op |-> "restart", arg |-> k, res |-> "Ok", pre |-> None]
        /\ UNCHANGED <<appNow, dbNow, oauth_states, shopify_tokens, issued,
                       consumed, deleted, caller, req,
                       instant, memory_store, asked, sweeper, log_level,
                       inserts>>

----------------------------------------------------------------------------
(* Proxy handlers: each reads the token of the configured shop *)

\* token_store.get_token(shop).await as a handler sees it: the result of
\* the SELECT and the decryption, or the Err of a statement that could not
\* be executed (fetch_optional(..).await?)
TokenStoreGet(shop, dbOk) ==
    IF dbOk THEN GetToken(shop) ELSE [tag |-> "Err", val |-> "sqlx"]

\* main.rs get_token: Ok(Some) => Some, Ok(None) => None, Err => None
MainGetToken(shop, dbOk) ==
    IF TokenStoreGet(shop, dbOk).tag = "Some"
    THEN TokenStoreGet(shop, dbOk).val ELSE None

\* shopify_api.rs get_token: Ok(Some(token)) => Some(token), _ => None
ApiGetToken(shop, dbOk) ==
    IF TokenStoreGet(shop, dbOk).tag = "Some"
    THEN TokenStoreGet(shop, dbOk).val ELSE None

NoTokenResponse == "401 No access token found"

\* orders_handler matches on token_store.get_token itself
OrdersResponse(dbOk) ==
    CASE TokenStoreGet(ConfigShop, dbOk).tag = "Some" -> "fetch"
      [] TokenStoreGet(ConfigShop, dbOk).tag = "None" -> NoTokenResponse
      [] OTHER -> "500 Database error retrieving access token"

HandlerState(dbOk) ==
    [rows |-> TokenRows(ConfigShop), got |-> TokenStoreGet(ConfigShop, dbOk),
     executed |-> dbOk]

orders_handler ==
    \E dbOk \in BOOLEAN :
    /\ lastOp' = [op |-> "orders_handler", arg |-> ConfigShop,
                  res |-> OrdersResponse(dbOk), pre |-> HandlerState(dbOk)]
    /\ UNCHANGED <<appNow, dbNow, oauth_states, shopify_tokens, key, issued,
                   consumed, deleted, caller, req,
                   instant, memory_store, asked, sweeper, log_level, inserts>>

\* products_handler, customers_handler, inventory_handler
ApiHandlers == {"products_handler", "customers_handler", "inventory_handler"}

api_handler ==
    \E h \in ApiHandlers, dbOk \in BOOLEAN :
        /\ lastOp' = [op |-> h, arg |-> ConfigShop,
                      res |-> IF ApiGetToken(ConfigShop, dbOk) = None
                              THEN NoTokenResponse ELSE "fetch",
                      pre |-> HandlerState(dbOk)]
        /\ UNCHANGED <<appNow, dbNow, oauth_states, shopify_tokens, key, issued,
                       consumed, deleted, caller, req,
                       instant, memory_store, asked, sweeper, log_level,
                       inserts>>

\* abandoned_checkouts_handler, abandoned_checkouts_count_handler
CheckoutHandlers == {"abandoned_checkouts_handler",
                     "abandoned_checkouts_count_handler"}

checkouts_handler ==
    \E h \in CheckoutHandlers, dbOk \in BOOLEAN :
        /\ lastOp' = [op |-> h, arg |-> ConfigShop,
                      res |-> IF MainGetToken(ConfigShop, dbOk) = None
                              THEN NoTokenResponse ELSE "fetch",
                      pre |-> HandlerState(dbOk)]
        /\ UNCHANGED <<appNow, dbNow, oauth_states, shopify_tokens, key, issued,
                       consumed, deleted, caller, req,
                       instant, memory_store, asked, sweeper, log_level,
                       inserts>>

----------------------------------------------------------------------------
(* auth_handler: issues a fresh CSRF state and redirects *)

\* /auth up to the await: the state is generated and store_state is called
auth_handler ==
    \E tok \in FreshUuids :
        /\ store_state(tok, CsrfTtl)
        /\ UNCHANGED <<appNow, dbNow, shopify_tokens, key, deleted, caller, req,
                       instant, memory_store, asked, sweeper, log_level>>

\* store_state(..).await returns to /auth: the redirect after Ok, the
\* "Unable to initiate OAuth flow" page after an Err
auth_handler_await ==
    \E tok \in UuidTokens, dbOk \in BOOLEAN :
        /\ IF dbOk
           THEN store_state_await(tok)
           ELSE /\ InFlight(tok)
                /\ inserts' = [inserts EXCEPT ![tok] = NoInsert]
                /\ lastOp' = [op |-> "auth_handler", arg |-> tok,
                              res |-> "internal_error", pre |-> None]
                /\ UNCHANGED <<oauth_states, issued, consumed>>
        /\ UNCHANGED <<appNow, dbNow, shopify_tokens, key, deleted, caller, req,
                       instant, memory_store, asked, sweeper, log_level>>

----------------------------------------------------------------------------
(* oauth_callback, one action per await point.  Requests are numbered in
   the order they arrive.  A request that panics ends without a response
   (resp = "panic"). *)

\* a request ends: only what the claims read is kept (the state, the shop
\* and the access token only of a request that stored a token)
Finished(q, resp) ==
    [q EXCEPT !.pc = "done", !.resp = resp, !.code = None, !.scope = None,
              !.state = IF q.stored THEN q.state ELSE None,
              !.access_token = IF q.stored THEN q.access_token ELSE None,
              !.shop = IF q.stored THEN q.shop ELSE None,
              !.shop_param = IF q.stored THEN q.shop_param ELSE None]

\* a callback that takes the shop of the configuration whatever it was sent
CallbackShopConfigured(shopParam) == ConfigShop

\* let shop = params.shop.unwrap_or_else(|| state.config.shop.clone());
CallbackShop(shopParam) == IF shopParam = None THEN ConfigShop ELSE shopParam

\* an arrival that consumes the state it carries before it looks at the
\* error and the code
StatesAfterArriveConsumed(error, code, state) ==
    IF error # None \/ code = None
    THEN oauth_states \ {r \in oauth_states : r.state_token = state}
    ELSE oauth_states

\* lines 170-197: the returns for an error parameter and for a missing code
\* come before the first call of the state store
StatesAfterArrive(error, code, state) == oauth_states

\* the code parameters that make a difference: with an error parameter the
\* handler returns before it looks at the code
CodeParams(error) == IF error # None THEN {None} ELSE Codes \cup {None}

\* the shop parameters that make a difference: the shop is used only after
\* the error, the code and the state were found in order
ShopParams(error, code, state) ==
    IF error # None \/ code = None \/ state = None
    THEN {None} ELSE {None} \cup (Shops \ {ConfigShop})

\* lines 170-197 and 248-270: the checks before the first await
cb_arrive ==
    \E r \in Requests,
       error \in {None, "access_denied"},
       state \in StateParams \cup {None} :
     \E code \in CodeParams(error) :
      \E shopParam \in ShopParams(error, code, state) :
        /\ req[r].pc = "idle"
        /\ \A q \in Requests : q < r => req[q].pc # "idle"
        /\ req' = [req EXCEPT ![r] =
              IF error # None
              THEN Finished(IdleRequest, "oauth_error")
              ELSE IF code = None
              THEN Finished(IdleRequest, "missing_code")
              ELSE IF state = None
                   THEN Finished([IdleRequest EXCEPT !.csrf = "missing"],
                                 "security_error")
              ELSE [IdleRequest EXCEPT !.pc = "validate", !.state = state,
                                       !.code = code,
                                       !.shop_param = shopParam,
                                       !.shop = CallbackShop(shopParam)]]
        /\ oauth_states' = StatesAfterArrive(error, code, state)
        /\ lastOp' = IF error # None \/ code = None
                     THEN [op |-> "oauth_callback", arg |-> state,
                           res |-> IF error # None THEN "oauth_error"
                                                   ELSE "missing_code",
                           pre |-> None]
                     ELSE lastOp
        /\ UNCHANGED <<appNow, dbNow, shopify_tokens, key, issued, consumed,
                       deleted, caller, instant, memory_store, asked,
                       sweeper, log_level, inserts>>

\* lines 198-247 and 272: validate_and_remove_state(received_state).await;
\* when it failed, the error! line that slices the state, and when it
\* passed, the info! line that slices the code
AfterValidate(q, res) ==
    CASE res = "panic" -> Finished([q EXCEPT !.csrf = res], "panic")
      [] res = "Ok(false)" ->
            IF LevelEnabled("ERROR") /\ SlicePanics(q.state, LogPrefixLen)
            THEN Finished([q EXCEPT !.csrf = res], "panic")
            ELSE Finished([q EXCEPT !.csrf = res], "security_error")
      [] res = "Ok(true)" ->
            IF LevelEnabled("INFO") /\ SlicePanics(q.code, LogPrefixLen)
            THEN Finished([q EXCEPT !.csrf = res], "panic")
            ELSE [q EXCEPT !.csrf = res, !.pc = "exchange"]

cb_validate ==
    \E r \in Requests, dbOk \in BOOLEAN :
        /\ req[r].pc = "validate"
        /\ IF dbOk
           THEN /\ validate_and_remove_state(req[r].state)
                /\ req' = [req EXCEPT ![r] =
                              AfterValidate(req[r], ValidateResult(req[r].state))]
           ELSE \* Err(e): "Unable to validate security token"
                /\ req' = [req EXCEPT ![r] =
                              Finished([req[r] EXCEPT !.csrf = "Err"],
                                       "system_error")]
                /\ UNCHANGED <<oauth_states, issued, consumed, lastOp>>
        /\ UNCHANGED <<appNow, dbNow, shopify_tokens, key, deleted, caller,
                       instant, memory_store, asked, sweeper, log_level,
                       inserts>>

\* lines 275-276 and 338-362: exchange_code_for_token(&code, &shop, ..).await
\* Ok(token_response) carries the access token and the scope of the answer;
\* the code is not used after the exchange
cb_exchange ==
    \E r \in Requests, answer \in AccessTokens \cup {"Err"}, scope \in Scopes :
        /\ req[r].pc = "exchange"
        /\ answer = "Err" => scope = CHOOSE sc \in Scopes : TRUE
        /\ req' = [req EXCEPT ![r] =
              IF answer = "Err"
              THEN Finished([req[r] EXCEPT !.exchanged = "failed"],
                            "exchange_failed")
              ELSE [req[r] EXCEPT !.exchanged = "ok", !.access_token = answer,
                                  !.scope = scope, !.code = None,
                                  !.pc = "store"]]
        /\ UNCHANGED <<appNow, dbNow, oauth_states, shopify_tokens, key, issued,
                       consumed, lastOp, deleted, caller,
                       instant, memory_store, asked, sweeper, log_level,
                       inserts>>

\* lines 280-336: store_token(&shop, &token_response.access_token,
\* &token_response.scope).await and the success page, which slices the first
\* 12 bytes of the access token
cb_store ==
    \E r \in Requests, dbOk \in BOOLEAN :
        /\ req[r].pc = "store"
        /\ IF dbOk
           THEN /\ \E n \in Nonces :
                      store_token(req[r].shop, req[r].access_token,
                                  req[r].scope, n)
                /\ req' = [req EXCEPT ![r] =
                      Finished([req[r] EXCEPT !.stored = TRUE],
                               IF SlicePanics(req[r].access_token, TokenPrefixLen)
                               THEN "panic" ELSE "success")]
           ELSE \* Err(e): "failed to store the access token"
                /\ req' = [req EXCEPT ![r] = Finished(req[r], "storage_error")]
                /\ UNCHANGED <<shopify_tokens, deleted, lastOp>>
        /\ UNCHANGED <<appNow, dbNow, oauth_states, key, issued, consumed, caller,
                       instant, memory_store, asked, sweeper, log_level,
                       inserts>>

----------------------------------------------------------------------------
(* Concurrent callers of validate_and_remove_state: a call is sent (Invoke)
   and later its DELETE is executed by the database (Execute); the DELETEs
   of different callers interleave in any order. *)

Invoke ==
    \E c \in Callers, tok \in UuidTokens :
        /\ caller[c].pc = "idle"
        /\ caller' = [caller EXCEPT ![c] = [IdleCaller EXCEPT
                                              !.pc = "pending", !.tok = tok]]
        /\ UNCHANGED <<appNow, dbNow, oauth_states, shopify_tokens, key, issued,
                       consumed, lastOp, deleted, req,
                       instant, memory_store, asked, sweeper, log_level,
                       inserts>>

Execute ==
    \E c \in Callers :
        /\ caller[c].pc = "pending"
        /\ validate_and_remove_state(caller[c].tok)
        /\ caller' = [caller EXCEPT ![c] =
              [pc |-> "done", tok |-> caller[c].tok,
               res |-> ValidateResult(caller[c].tok),
               timely |-> /\ issued[caller[c].tok] # NoIssue
                          /\ issued[caller[c].tok].exp > dbNow,
               raced |-> \E d \in Callers \ {c} :
                            /\ caller[d].pc = "pending"
                            /\ caller[d].tok = caller[c].tok]]
        /\ UNCHANGED <<appNow, dbNow, shopify_tokens, key, deleted, req,
                       instant, memory_store, asked, sweeper, log_level,
                       inserts>>

----------------------------------------------------------------------------
(* Concurrent callers of store_token: a call seals its token (store_begin)
   and later its statement is executed by the database (store_execute); the
   statements of different callers interleave in any order. *)

store_begin ==
    \E c \in Callers, shop \in Shops, t \in AccessTokens, sc \in Scopes,
       n \in Nonces :
        /\ caller[c].pc = "idle"
        /\ caller' = [caller EXCEPT ![c] =
              [pc |-> "sealed", shop |-> shop, token |-> t, scope |-> sc,
               encrypted_token |-> encrypt(t, n), raced |-> FALSE]]
        /\ UNCHANGED <<appNow, dbNow, oauth_states, shopify_tokens, key, issued,
                       consumed, lastOp, deleted, req, instant, memory_store,
                       asked, sweeper, log_level, inserts>>

store_execute ==
    \E c \in Callers :
        /\ caller[c].pc = "sealed"
        /\ execute_upsert(caller[c].shop, caller[c].encrypted_token,
                          caller[c].token, caller[c].scope)
        /\ caller' = [caller EXCEPT ![c] =
              [caller[c] EXCEPT
                 !.pc = "done",
                 !.raced = \E d \in Callers \ {c} :
                              /\ caller[d].pc = "sealed"
                              /\ caller[d].shop = caller[c].shop]]
        /\ UNCHANGED <<appNow, dbNow, oauth_states, key, issued, consumed, req,
                       instant, memory_store, asked, sweeper, log_level,
                       inserts>>

----------------------------------------------------------------------------
(* RateLimiter (src/src/middleware.rs), built without Redis as in
   test_in_memory_rate_limiting: redis_client is None and check_rate_limit
   goes to check_memory_rate_limit.  Instants are whole seconds. *)

Identifiers == {"test_ip_127.0.0.1", "test_ip_10.0.0.2"}
Limits == 0 .. MaxLimit
NoCalls == [calls |-> 0, limit |-> 0, fixed |-> TRUE]

\* HashMap::new()
EmptyStore == [i \in {} |-> [count |-> 0, timestamp |-> 0]]

\* store.insert(identifier.to_string(), entry)
Insert(store, identifier, entry) ==
    [i \in DOMAIN store \cup {identifier} |->
        IF i = identifier THEN entry ELSE store[i]]

\* store.get(identifier), as the set of the entries found
EntryOf(store, identifier) ==
    IF identifier \in DOMAIN store THEN {store[identifier]} ELSE {}

\* the steps of Instant::now() between two calls
InstantStep == RateWindow \div 2

TickInstant ==
    /\ instant < MaxInstant * InstantStep
    /\ instant' = instant + InstantStep
    /\ UNCHANGED <<appNow, dbNow, oauth_states, shopify_tokens, key, issued,
                   consumed, lastOp, deleted, caller, req, memory_store, asked,
                   sweeper, log_level, inserts>>

\* now.duration_since(*timestamp).as_secs()
AgeSecs(e) == instant - e.timestamp

\* store.retain(|_, (_, timestamp)| .. < 60)
Retained ==
    [i \in {j \in DOMAIN memory_store :
                AgeSecs(memory_store[j]) < RateWindow} |-> memory_store[i]]

\* a limiter that restarts the window of a caller it rejects
CheckMemorySliding(identifier, limit) ==
    LET store == Retained
    IN  IF identifier \notin DOMAIN store
        THEN [ok |-> TRUE,
              store |-> Insert(store, identifier,
                               [count |-> 1, timestamp |-> instant])]
        ELSE IF store[identifier].count >= limit
        THEN [ok |-> FALSE,
              store |-> [store EXCEPT ![identifier].timestamp = instant]]
        ELSE [ok |-> TRUE,
              store |-> [store EXCEPT ![identifier].count = @ + 1]]

\* the match of check_memory_rate_limit on the store after retain: the
\* answer and the store it leaves
CheckMemory(identifier, limit) ==
    LET store == Retained
    IN  IF identifier \notin DOMAIN store
        THEN [ok |-> TRUE,
              store |-> Insert(store, identifier,
                               [count |-> 1, timestamp |-> instant])]
        ELSE IF AgeSecs(store[identifier]) >= RateWindow
        THEN [ok |-> TRUE,
              store |-> [store EXCEPT ![identifier] =
                            [count |-> 1, timestamp |-> instant]]]
        ELSE IF store[identifier].count >= limit
        THEN [ok |-> FALSE, store |-> store]
        ELSE [ok |-> TRUE,
              store |-> [store EXCEPT ![identifier].count = @ + 1]]

\* history: the identifier has an entry whose window is still open
WindowOpen(identifier) ==
    /\ identifier \in DOMAIN memory_store
    /\ AgeSecs(memory_store[identifier]) < RateWindow

\* history: calls already made for the identifier in its open window
PriorCalls(identifier) ==
    IF WindowOpen(identifier) THEN asked[identifier].calls ELSE 0

\* history: every call of the open window, this one included, has this limit
FixedLimit(identifier, limit) ==
    \/ ~WindowOpen(identifier)
    \/ asked[identifier].fixed /\ asked[identifier].limit = limit

check_memory_rate_limit(identifier, limit) ==
    LET r == CheckMemory(identifier, limit)
    IN  /\ memory_store' = r.store
        /\ asked' = [asked EXCEPT ![identifier] =
                        [calls |-> PriorCalls(identifier) + 1,
                         limit |-> limit,
                         fixed |-> FixedLimit(identifier, limit)]]
        /\ lastOp' = [op |-> "check_rate_limit", arg |-> identifier,
                      res |-> IF r.ok THEN "Ok(true)" ELSE "Ok(false)",
                      pre |-> [entry |-> EntryOf(memory_store, identifier),
                               now |-> instant, limit |-> limit,
                               calls |-> PriorCalls(identifier),
                               fixed |-> FixedLimit(identifier, limit)]]

\* check_rate_limit(identifier, limit) of a limiter whose redis_client is None
check_rate_limit ==
    \E identifier \in Identifiers, limit \in Limits :
        /\ PriorCalls(identifier) < MaxCalls
        /\ check_memory_rate_limit(identifier, limit)
        /\ UNCHANGED <<appNow, dbNow, oauth_states, shopify_tokens, key, issued,
                       consumed, deleted, caller, req, instant, sweeper,
                       log_level, inserts>>

----------------------------------------------------------------------------
(* Webhooks (src/src/webhooks.rs): the raw request bodies the model sends.
   The four JSON documents carry every field their payload struct requires. *)

\* a document serde_json parses as OrderWebhook
OrderJson ==
       "{\"id\":1001,\"created_at\":\"x\",\"updated_at\":\"x\",\"number\":1,\"tok"
    \o "en\":\"x\",\"test\":false,\"total_price\":\"x\",\"subtotal_price\":\"x\","
    \o "\"total_weight\":1,\"total_tax\":\"x\",\"taxes_included\":false,\"cur"
    \o "rency\":\"x\",\"financial_status\":\"x\",\"confirmed\":false,\"total_d"
    \o "iscounts\":\"x\",\"buyer_accepts_marketing\":false,\"name\":\"x\",\"pr"
    \o "ocessed_at\":\"x\",\"order_number\":1,\"processing_method\":\"x\",\"so"
    \o "urce_name\":\"x\",\"tax_lines\":[],\"tags\":\"x\",\"order_status_url\":"
    \o "\"x\",\"presentment_currency\":\"x\",\"total_line_items_price\":\"x\","
    \o "\"total_discounts_set\":{},\"total_line_items_price_set\":{},\"to"
    \o "tal_price_set\":{},\"total_shipping_price_set\":{},\"subtotal_pr"
    \o "ice_set\":{},\"total_tax_set\":{},\"line_items\":[],\"fulfillments"
    \o "\":[],\"refunds\":[],\"shipping_lines\":[]}"

\* a document serde_json parses as ProductWebhook
ProductJson ==
       "{\"id\":2002,\"title\":\"x\",\"vendor\":\"x\",\"product_type\":\"x\",\"crea"
    \o "ted_at\":\"x\",\"updated_at\":\"x\",\"published_scope\":\"x\",\"tags\":\"x"
    \o "\",\"status\":\"x\",\"admin_graphql_api_id\":\"x\",\"variants\":[],\"opt"
    \o "ions\":[],\"images\":[]}"

\* a document serde_json parses as CustomerWebhook
CustomerJson ==
       "{\"id\":3003,\"accepts_marketing\":false,\"created_at\":\"x\",\"updat"
    \o "ed_at\":\"x\",\"orders_count\":1,\"state\":\"x\",\"total_spent\":\"x\",\"v"
    \o "erified_email\":false,\"tax_exempt\":false,\"tags\":\"x\",\"currency"
    \o "\":\"x\",\"addresses\":[],\"admin_graphql_api_id\":\"x\"}"

\* a document serde_json parses as CheckoutWebhook
CheckoutJson ==
       "{\"id\":4004,\"token\":\"x\",\"created_at\":\"x\",\"updated_at\":\"x\",\"no"
    \o "te_attributes\":[],\"shipping_lines\":[],\"taxes_included\":false"
    \o ",\"total_weight\":1,\"currency\":\"x\",\"line_items\":[],\"name\":\"x\","
    \o "\"abandoned_checkout_url\":\"x\",\"discount_codes\":[],\"tax_lines\""
    \o ":[],\"source_name\":\"x\",\"presentment_currency\":\"x\",\"total_disc"
    \o "ounts\":\"x\",\"total_line_items_price\":\"x\",\"total_price\":\"x\",\"t"
    \o "otal_tax\":\"x\",\"subtotal_price\":\"x\"}"

\* the body of test_webhook_verification: not JSON
TestPayload ==
       "test webhook payload"

\* valid JSON that lacks every required field
EmptyJson ==
       "{}"

Bodies == {OrderJson, ProductJson, CustomerJson, CheckoutJson, TestPayload,
           EmptyJson}

\* the secret of test_webhook_verification and the configured API_SECRET
WebhookSecrets == {"test_webhook_secret", "test_api_secret_67890"}

\* state.config.api_secret
ApiSecret == "test_api_secret_67890"

\* hex::encode(mac.finalize().into_bytes()) for HmacSha256 keyed with secret
\* and updated with body: the digests of the bodies and secrets above
HmacSha256Hex(secret, body) ==
    CASE secret = "test_webhook_secret" /\ body = OrderJson ->
           "255e556e54a3e5259492f8082b7031a2affdef4b69b7a1ff9dd98ff518d7ae60"
      [] secret = "test_api_secret_67890" /\ body = OrderJson ->
           "57424ada0a3d9d98e6d79deebb6b683b38c98fadbdb5b94ab95d50d2ffc01e8b"
      [] secret = "test_webhook_secret" /\ body = ProductJson ->
           "d4491da66890a715d162c6736dbf1b8d07a2280cc7d1b7876a31dbf99fc28290"
      [] secret = "test_api_secret_67890" /\ body = ProductJson ->
           "5fda8d25c8cec480fe4ece3f0d73521e83f25a4843bfffd7856045ba6dc0f1b9"
      [] secret = "test_webhook_secret" /\ body = CustomerJson ->
           "d720d0decdc1c7c297bc44d164c6a7f62d940fa17d6a105d5657cb0a43284e98"
      [] secret = "test_api_secret_67890" /\ body = CustomerJson ->
           "6b8ffa043eb224ba62cb1af5e036804215e4d7f8a7706575df91c18eb82f31c8"
      [] secret = "test_webhook_secret" /\ body = CheckoutJson ->
           "0a44788efc15a3341a1d60f5d375c2623ebee283b20d8e9a5d98a7113986706d"
      [] secret = "test_api_secret_67890" /\ body = CheckoutJson ->
           "10d95df7b17fdc15a5fcf10e7f550f76e5e0e9fde53625259a342905c9b04eb8"
      [] secret = "test_webhook_secret" /\ body = TestPayload ->
           "fa36d3623366f601b68cfd8d38e77fc329eccd88db60dc2a480cf9b8f294e477"
      [] secret = "test_api_secret_67890" /\ body = TestPayload ->
           "f92c3f50ca0130f1f8f6fd3b8d0996f8d895e1659cd6c0c2682dbb609754a3f0"
      [] secret = "test_webhook_secret" /\ body = EmptyJson ->
           "0b3f829e88eefb9dcfb71f54b02f0e8b0f18f9b667d23b9052d115f74df5727d"
      [] secret = "test_api_secret_67890" /\ body = EmptyJson ->
           "0a08bf2deaab77139c2402bac15c122d45bce0a6fb28fb8170f4b67c026f2b55"

\* length of a hex-encoded SHA-256 digest
DigestLen == 64

\* signature.strip_prefix("sha256=").unwrap_or(signature)
StripPrefix(s, p) ==
    IF Len(s) >= Len(p) /\ SubSeq(s, 1, Len(p)) = p
    THEN SubSeq(s, Len(p) + 1, Len(s))
    ELSE s

\* a comparison that accepts every supplied signature the expected digest
\* starts with
VerifyWebhookStartsWith(body, signature, secret) ==
    LET supplied == StripPrefix(signature, "sha256=")
        expected == HmacSha256Hex(secret, body)
    IN  /\ Len(supplied) <= Len(expected)
        /\ SubSeq(expected, 1, Len(supplied)) = supplied

\* Ok(expected_signature == signature)
verify_webhook(body, signature, secret) ==
    HmacSha256Hex(secret, body) = StripPrefix(signature, "sha256=")

\* expected_signature == signature is equality of the two byte slices: the
\* lengths are compared and then the bytes, by the memcmp of the C library.
\* The source does not fix how memcmp reads; it reads in loads of one width,
\* from the start, and returns after the load that holds a difference.  The
\* widths are those of a byte loop, a word loop and 16, 32 and 64 byte vectors.
LoadWidths == {1, 8, 16, 32, 64}

\* position of the first byte in which two slices of one length differ
FirstDifference(expected, supplied) ==
    Cardinality({i \in 1 .. Len(expected) :
                    SubSeq(expected, 1, i) = SubSeq(supplied, 1, i)}) + 1

\* the end of the load of the given width that holds byte i of n bytes
LoadEnd(i, n, width) ==
    LET end == ((i + width - 1) \div width) * width
    IN  IF end > n THEN n ELSE end

\* the bytes the comparison reads in a build whose memcmp loads that width:
\* none for slices of different lengths, all of two equal slices, and
\* otherwise those up to the end of the load with the first difference
BytesCompared(expected, supplied, width) ==
    IF Len(expected) # Len(supplied) THEN 0
    ELSE IF expected = supplied THEN Len(expected)
    ELSE LoadEnd(FirstDifference(expected, supplied), Len(expected), width)

\* the bytes the comparison of verify_webhook reads for a request
VerifyWebhookCost(body, signature, secret, width) ==
    BytesCompared(HmacSha256Hex(secret, body),
                  StripPrefix(signature, "sha256="), width)

\* the signature with the hex digit at position i replaced by another one
Mutated(sig, i) ==
    SubSeq(sig, 1, i - 1)
    \o (IF SubSeq(sig, i, i) = "0" THEN "1" ELSE "0")
    \o SubSeq(sig, i + 1, Len(sig))

\* values of the X-Shopify-Hmac-Sha256 header a sender can put on a body:
\* digests under either secret, of this or another body, with and without
\* the prefix, and damaged ones
SignaturesFor(body) ==
    LET digests == {HmacSha256Hex(s, b) : s \in WebhookSecrets,
                                          b \in {body, TestPayload}}
    IN  digests
        \cup {"sha256=" \o d : d \in digests}
        \cup {"sha256=sha256=" \o d : d \in digests}
        \cup {Mutated(d, i) : d \in digests, i \in {1, DigestLen}}
        \cup {"sha256=" \o Mutated(d, i) : d \in digests, i \in {1, DigestLen}}
        \cup {SubSeq(d, 1, DigestLen - 1) : d \in digests}
        \cup {d \o "0" : d \in digests}
        \cup {"", "sha256=", "invalid_signature"}

\* every single-character mutation of the correct digest
MutationsOf(d) == {Mutated(d, i) : i \in 1 .. DigestLen}

verify_webhook_call ==
    \E body \in Bodies, secret \in WebhookSecrets :
    \E signature \in SignaturesFor(body)
                     \cup MutationsOf(HmacSha256Hex(secret, body)) :
        /\ lastOp' = [op |-> "verify_webhook",
                      arg |-> [body |-> body, signature |-> signature,
                               secret |-> secret],
                      res |-> verify_webhook(body, signature, secret),
                      pre |-> None]
        /\ UNCHANGED <<appNow, dbNow, oauth_states, shopify_tokens, key, issued,
                       consumed, deleted, caller, req,
                       instant, memory_store, asked, sweeper, log_level,
                       inserts>>

\* headers.get("X-Shopify-Hmac-Sha256") ... .ok_or("Missing ...")?;
\* if !verify_webhook(body, signature, secret)? { return Err(..) }; Ok(())
verify_webhook_request(header, body, secret) ==
    IF header = None THEN "Missing X-Shopify-Hmac-Sha256 header"
    ELSE IF ~verify_webhook(body, header, secret)
         THEN "Invalid webhook signature"
         ELSE "Ok"

\* the seven POST /webhooks/* handlers with the payload type each parses
\* and the words of its responses
WebhookHandlers ==
    {[name |-> "orders_created_webhook", payload |-> "OrderWebhook",
      done |-> <<"Order ", " processed">>, what |-> "order"],
     [name |-> "orders_updated_webhook", payload |-> "OrderWebhook",
      done |-> <<"Order ", " update processed">>, what |-> "order update"],
     [name |-> "orders_cancelled_webhook", payload |-> "OrderWebhook",
      done |-> <<"Order ", " cancellation processed">>,
      what |-> "order cancellation"],
     [name |-> "products_created_webhook", payload |-> "ProductWebhook",
      done |-> <<"Product ", " processed">>, what |-> "product"],
     [name |-> "customers_created_webhook", payload |-> "CustomerWebhook",
      done |-> <<"Customer ", " processed">>, what |-> "customer"],
     [name |-> "checkouts_created_webhook", payload |-> "CheckoutWebhook",
      done |-> <<"Checkout ", " processed">>, what |-> "checkout"],
     [name |-> "checkouts_updated_webhook", payload |-> "CheckoutWebhook",
      done |-> <<"Checkout ", " update processed">>,
      what |-> "checkout update"]}

WebhookHandlerNames == {h.name : h \in WebhookHandlers}

\* serde_json::from_slice::<T>(&body): Ok with the id of the parsed payload,
\* or Err when the body is not a document of type T
FromSlice(payload, body) ==
    CASE payload = "OrderWebhook" /\ body = OrderJson -> [tag |-> "Ok", id |-> 1001]
      [] payload = "ProductWebhook" /\ body = ProductJson -> [tag |-> "Ok", id |-> 2002]
      [] payload = "CustomerWebhook" /\ body = CustomerJson -> [tag |-> "Ok", id |-> 3003]
      [] payload = "CheckoutWebhook" /\ body = CheckoutJson -> [tag |-> "Ok", id |-> 4004]
      [] OTHER -> [tag |-> "Err", id |-> 0]

\* the handler parses first and verifies afterwards
WebhookRunParseFirst(h, header, body) ==
    LET parsed == FromSlice(h.payload, body)
        checked == verify_webhook_request(header, body, ApiSecret)
    IN  IF parsed.tag = "Err"
        THEN [steps |-> <<"parse">>, status |-> 400,
              message |-> "Failed to parse " \o h.what \o " data"]
        ELSE IF checked # "Ok"
        THEN [steps |-> <<"parse", "verify">>, status |-> 401,
              message |-> "Webhook verification failed"]
        ELSE [steps |-> <<"parse", "verify", "process">>, status |-> 200,
              message |-> h.done[1] \o ToString(parsed.id) \o h.done[2]]

\* one run of a webhook handler: the steps it takes, in order, and its response
WebhookRun(h, header, body) ==
    LET checked == verify_webhook_request(header, body, ApiSecret)
        parsed == FromSlice(h.payload, body)
    IN  IF checked # "Ok"
        THEN [steps |-> <<"verify">>, status |-> 401,
              message |-> "Webhook verification failed"]
        ELSE IF parsed.tag = "Err"
        THEN [steps |-> <<"verify", "parse">>, status |-> 400,
              message |-> "Failed to parse " \o h.what \o " data"]
        ELSE [steps |-> <<"verify", "parse", "process">>, status |-> 200,
              message |-> h.done[1] \o ToString(parsed.id) \o h.done[2]]

webhook_handler ==
    \E h \in WebhookHandlers, body \in Bodies :
    \E header \in {None} \cup SignaturesFor(body) :
        /\ lastOp' = [op |-> h.name,
                      arg |-> [header |-> header, body |-> body],
                      res |-> WebhookRun(h, header, body),
                      pre |-> None]
        /\ UNCHANGED <<appNow, dbNow, oauth_states, shopify_tokens, key, issued,
                       consumed, deleted, caller, req,
                       instant, memory_store, asked, sweeper, log_level,
                       inserts>>

----------------------------------------------------------------------------
(* Specifications *)

\* the stores, the requests and the clocks before anything has happened
Fresh ==
    /\ appNow = 0
    /\ dbNow = 0
    /\ oauth_states = {}
    /\ shopify_tokens = {}
    /\ key = "abcdefghijklmnopqrstuvwxyz123456"
    /\ issued = [t \in UuidTokens |-> NoIssue]
    /\ consumed = {}
    /\ lastOp = NoOp
    /\ deleted = {}
    /\ caller = [c \in Callers |-> IdleCaller]
    /\ req = [r \in Requests |-> IdleRequest]
    /\ instant = 0
    /\ memory_store = EmptyStore
    /\ asked = [i \in Identifiers |-> NoCalls]
    /\ sweeper = Spawned
    /\ inserts = [t \in UuidTokens |-> NoInsert]

Init == Fresh /\ log_level = NoSubscriber

\* main: tracing_subscriber::fmt::init() comes first, before the stores are
\* built and the server listens; the level is what RUST_LOG names
fmt_init ==
    \E level \in LogLevels \ {NoSubscriber} :
        /\ Fresh
        /\ log_level = NoSubscriber
        /\ log_level' = level
        /\ UNCHANGED <<appNow, dbNow, oauth_states, shopify_tokens, key, issued,
                       consumed, lastOp, deleted, caller, req, instant,
                       memory_store, asked, sweeper, inserts>>

NextState ==
    \/ fmt_init
    \/ TickApp \/ TickDb \/ StoreState \/ StoreStateAwait
    \/ ValidateState \/ ValidateOddState

SpecState == Init /\ [][NextState]_vars

\* concurrent validations of the states /auth issues.  The states are
\* UUIDs, which every log line can slice: what the subscriber records
\* changes no result, and the callers are followed in a process that
\* records no level.
NextRace ==
    \/ TickApp \/ TickDb \/ auth_handler \/ auth_handler_await
    \/ Invoke \/ Execute

SpecRace == Init /\ [][NextRace]_vars

NextToken ==
    \/ TickDb \/ StoreToken \/ GetTokenCall \/ DeleteToken \/ Restart
    \/ orders_handler \/ api_handler \/ checkouts_handler

SpecToken == Init /\ [][NextToken]_vars

\* the handshake followed by reads and deletes of the stored token, all
\* within one step of the clocks.  What is logged changes no record: a
\* request that panics in a log line stops where another request can stop
\* for a failed exchange.  The requests are followed in a process that
\* records no level, where each of them goes as far as it can.
NextFlow ==
    \/ auth_handler \/ auth_handler_await
    \/ cb_arrive \/ cb_validate \/ cb_exchange \/ cb_store
    \/ GetTokenCall \/ DeleteToken

SpecFlow == Init /\ [][NextFlow]_vars

\* /auth and /callback requests under each level of the subscriber
NextCallback ==
    \/ fmt_init
    \/ auth_handler \/ auth_handler_await
    \/ cb_arrive \/ cb_validate \/ cb_exchange \/ cb_store

SpecCallback == Init /\ [][NextCallback]_vars

\* /auth and /callback requests next to a proxy handler, in a process that
\* records no level
NextShops ==
    \/ auth_handler \/ auth_handler_await
    \/ cb_arrive \/ cb_validate \/ cb_exchange \/ cb_store
    \/ orders_handler

SpecShops == Init /\ [][NextShops]_vars

\* /auth and /callback requests up to the CSRF check
NextCsrf ==
    \/ fmt_init
    \/ auth_handler \/ auth_handler_await \/ cb_arrive \/ cb_validate

SpecCsrf == Init /\ [][NextCsrf]_vars

\* concurrent store_token calls
NextStoreRace == TickDb \/ store_begin \/ store_execute

SpecStoreRace == Init /\ [][NextStoreRace]_vars

\* the token store with list_shops
NextList == TickDb \/ StoreToken \/ DeleteToken \/ list_shops

SpecList == Init /\ [][NextList]_vars

\* webhook deliveries and calls of the verifier
NextWebhook == verify_webhook_call \/ webhook_handler

SpecWebhook == Init /\ [][NextWebhook]_vars

\* the state store with the background sweep
NextSweep ==
    \/ fmt_init
    \/ TickApp \/ TickDb \/ IssueState \/ StoreStateAwait
    \/ ValidateState \/ cleanup_task

SpecSweep == Init /\ [][NextSweep]_vars

\* the state store with the background sweep in a process that records no
\* level: what a call logs does not change the rows it leaves.  The
\* validations are those of tokens that can have a record; a validation of
\* any other token finds no record and leaves the store as it is.
NextSweepLive ==
    \/ TickApp \/ TickDb \/ IssueState \/ StoreStateAwait
    \/ ValidateUuid \/ cleanup_task

\* where time passes and the sweep task keeps being scheduled: the interval
\* keeps ticking and each tick is followed by an iteration, whose statement
\* the database executes or not
SpecSweepLive ==
    /\ Init /\ [][NextSweepLive]_vars
    /\ WF_vars(TickApp) /\ WF_vars(TickDb) /\ WF_vars(cleanup_task)

\* the cipher on its own: construction from a key, encrypt, decrypt
NextCipher == cipher_round \/ token_store_new

SpecCipher == Init /\ [][NextCipher]_vars

\* the in-memory rate limiter
NextLimiter == TickInstant \/ check_rate_limit

SpecLimiter == Init /\ [][NextLimiter]_vars

----------------------------------------------------------------------------
(* Claims about the StateStore *)

IsValidate(o) == o.op = "validate_and_remove_state"

\* C1 (CSRF single-use): a validation of a token that was stored with a
\* positive TTL, has not been validated since and is not yet expired returns
\* true; every validation after that one returns false until the token is
\* stored again.
C1_SingleUse ==
    IsValidate(lastOp) =>
        /\ (lastOp.pre.consumed => lastOp.res = "Ok(false)")
        /\ (/\ ~lastOp.pre.consumed
            /\ lastOp.pre.issued.ttl > 0
            /\ lastOp.pre.issued.exp > lastOp.pre.now
            => lastOp.res = "Ok(true)")

\* a second validation of a token that was stored with a positive TTL,
\* consumed by an earlier validation and is still inside its TTL
C1_Witness ==
    /\ IsValidate(lastOp)
    /\ lastOp.pre.issued.ttl > 0
    /\ lastOp.pre.consumed
    /\ lastOp.pre.issued.exp > lastOp.pre.now
    /\ lastOp.res = "Ok(false)"

\* C3 (CSRF expiry): a validation of a legitimately stored token returns
\* false when the token was stored with ttl_seconds = 0 or when its
\* expires_at has passed.
C3_Expiry ==
    (/\ IsValidate(lastOp)
     /\ lastOp.pre.issued # NoIssue
     /\ \/ lastOp.pre.issued.ttl = 0
        \/ lastOp.pre.issued.exp <= lastOp.pre.now)
    => lastOp.res = "Ok(false)"

\* C4: a validation returns true exactly when a row for the token exists
\* with now < expires_at, and then the row is gone in the same step.
C4_ValidIff ==
    IsValidate(lastOp) =>
        /\ lastOp.res = "Ok(true)" <=>
               \E r \in lastOp.pre.rows : lastOp.pre.now < r.expires_at
        /\ lastOp.res = "Ok(true)" =>
               ~\E r \in oauth_states : r.state_token = lastOp.arg

\* a validation found a live row for its token and deleted it, while the
\* row of another token stayed
C4_Witness ==
    /\ IsValidate(lastOp) /\ lastOp.res = "Ok(true)"
    /\ \E r \in lastOp.pre.rows : lastOp.pre.now < r.expires_at
    /\ oauth_states # {}

\* the callers whose DELETE for tok has been executed
DoneOn(tok) == {c \in Callers : caller[c].pc = "done" /\ caller[c].tok = tok}

\* C2 (CSRF race): of the callers that validate the same issued token,
\* at most one gets true; as soon as one of them ran while the token was
\* stored and unexpired, exactly one has got true and the others false.
C2_Race ==
    \A tok \in UuidTokens :
        LET winners == {c \in DoneOn(tok) : caller[c].res = "Ok(true)"}
            timely == {c \in DoneOn(tok) : caller[c].timely}
        IN  /\ Cardinality(winners) <= 1
            /\ timely # {} => Cardinality(winners) = 1
            /\ \A c \in DoneOn(tok) \ winners : caller[c].res = "Ok(false)"

\* every caller validated the same token while the others' calls were
\* pending and the token was unexpired: one won, the others lost
C2_Witness ==
    \E tok \in UuidTokens :
        /\ DoneOn(tok) = Callers
        /\ \A c \in Callers : caller[c].timely
        /\ \E c \in Callers :
              /\ caller[c].res = "Ok(true)"
              /\ caller[c].raced
              /\ \A d \in Callers \ {c} : caller[d].res = "Ok(false)"

----------------------------------------------------------------------------
(* Claims about the TokenStore *)

\* C6 (upsert): after store_token(shop, t2, _) there is exactly one row for
\* the shop and get_token(shop) returns t2, also when the shop had a
\* different token t1 before.
C6_Upsert ==
    lastOp.op = "store_token" =>
        /\ Cardinality(TokenRows(lastOp.arg)) = 1
        /\ GetToken(lastOp.arg) = [tag |-> "Some", val |-> lastOp.pre.token]

\* the second store of the scenario: the shop held another token before
C6_Witness ==
    /\ lastOp.op = "store_token"
    /\ lastOp.pre.had \notin {None, lastOp.pre.token}
    /\ GetToken(lastOp.arg).val = lastOp.pre.token

ProxyHandlers == {"orders_handler"} \cup ApiHandlers \cup CheckoutHandlers

\* C7: a stored token that cannot be decrypted is an error distinct from
\* 'not found': get_token returns Err for it, and no proxy handler answers
\* it with the 'No access token found' response of an absent token.
C7_UndecryptableIsError ==
    /\ (/\ lastOp.op = "get_token"
        /\ lastOp.pre.rows # {}
        /\ \A r \in lastOp.pre.rows : ~TagVerifies(r.encrypted_access_token))
       => lastOp.res.tag = "Err"
    /\ (/\ lastOp.op \in ProxyHandlers
        /\ lastOp.pre.rows # {}
        /\ lastOp.pre.executed
        /\ lastOp.pre.got.tag = "Err")
       => lastOp.res # NoTokenResponse

\* C8: get_token of a shop without a row returns Ok(None), never an error.
C8_MissingIsNone ==
    (lastOp.op = "get_token" /\ lastOp.pre.rows = {})
        => lastOp.res = [tag |-> "None", val |-> None]

\* get_token of a shop whose row had been removed by delete_token
C8_Witness ==
    /\ lastOp.op = "get_token"
    /\ lastOp.pre.rows = {}
    /\ lastOp.pre.deleted
    /\ lastOp.res.tag = "None"

\* C9: delete_token returns true exactly when it removed a row of the shop;
\* afterwards the shop has no row and get_token returns not found; a delete
\* following a delete that removed the row, with no store in between,
\* returns false.
C9_Delete ==
    lastOp.op = "delete_token" =>
        /\ lastOp.res = "Ok(true)" <=> lastOp.pre.rows # {}
        /\ lastOp.res = "Ok(false)" <=> lastOp.pre.rows = {}
        /\ TokenRows(lastOp.arg) = {}
        /\ GetToken(lastOp.arg).tag = "None"
        /\ lastOp.pre.deleted => lastOp.res = "Ok(false)"

\* the second delete of a shop whose row the first delete removed
C9_Witness ==
    /\ lastOp.op = "delete_token"
    /\ lastOp.pre.deleted
    /\ lastOp.res = "Ok(false)"

----------------------------------------------------------------------------
(* Claims about the OAuth handshake *)

\* C5 (handshake order): the exchange is attempted only after the state
\* validated true, store_token is called only after the exchange succeeded,
\* a callback whose state is missing or fails validation ends in the
\* security-error response with no exchange and no token stored, and a
\* failed exchange stores no token.
C5_HandshakeOrder ==
    \A r \in Requests :
        /\ req[r].exchanged # "no" => req[r].csrf = "Ok(true)"
        /\ req[r].stored => req[r].exchanged = "ok"
        /\ (req[r].pc = "done" /\ req[r].csrf \in {"missing", "Ok(false)", "panic"})
              => /\ req[r].resp = "security_error"
                 /\ req[r].exchanged = "no"
                 /\ ~req[r].stored
        /\ req[r].exchanged = "failed" => ~req[r].stored

\* the order of C5 alone, leaving open which response a rejected state gets
C5_OrderOnly ==
    \A r \in Requests :
        /\ req[r].exchanged # "no" => req[r].csrf = "Ok(true)"
        /\ req[r].stored => req[r].exchanged = "ok"
        /\ req[r].csrf \in {"missing", "Ok(false)", "panic", "Err"}
              => req[r].exchanged = "no" /\ ~req[r].stored
        /\ req[r].exchanged = "failed" => ~req[r].stored

\* C10 (end to end): after a callback that carried an issued state and whose
\* exchange succeeded has stored its token, get_token(shop) returns the
\* exchanged token; delete_token(shop) of the stored token returns true; and
\* get_token(shop) after that delete returns not found.
C10_EndToEnd ==
    /\ lastOp.op = "store_token" =>
          /\ GetToken(lastOp.arg) = [tag |-> "Some", val |-> lastOp.pre.token]
          /\ \E r \in Requests :
                /\ req[r].stored
                /\ req[r].exchanged = "ok"
                /\ req[r].csrf = "Ok(true)"
                /\ issued[req[r].state] # NoIssue
                /\ req[r].shop = lastOp.arg
                /\ req[r].access_token = lastOp.pre.token
    /\ (lastOp.op = "delete_token" /\ lastOp.pre.rows # {})
          => lastOp.res = "Ok(true)"
    /\ (lastOp.op = "get_token" /\ lastOp.pre.deleted)
          => lastOp.res = [tag |-> "None", val |-> None]

\* the end of the scenario: a callback succeeded for the shop, its token
\* was deleted, and get_token finds nothing
C10_Witness ==
    /\ lastOp.op = "get_token"
    /\ lastOp.pre.deleted
    /\ lastOp.res.tag = "None"
    /\ \E r \in Requests :
          /\ req[r].resp = "success"
          /\ req[r].shop = lastOp.arg
          /\ req[r].state \in consumed

----------------------------------------------------------------------------
(* Claims about the webhooks *)

\* C11: in every webhook handler the signature is verified on the raw body
\* before the payload is parsed: a delivery whose signature header is missing
\* or does not verify is answered with 401 after the verification step alone,
\* and a run that parses or processes the payload verified it first.
C11_VerifyBeforeParse ==
    lastOp.op \in WebhookHandlerNames =>
        LET a == lastOp.arg
            run == lastOp.res
            verifies == /\ a.header # None
                        /\ verify_webhook(a.body, a.header, ApiSecret)
            Took(step) == \E i \in 1 .. Len(run.steps) : run.steps[i] = step
        IN  /\ ~verifies => run.status = 401 /\ run.steps = <<"verify">>
            /\ Took("parse") => verifies /\ run.steps[1] = "verify"
            /\ Took("process") => run.steps = <<"verify", "parse", "process">>
            /\ run.status = 401 => ~verifies

\* a delivery without the signature header whose body is a well-formed
\* payload of the handler: rejected with 401, not parsed
C11_Witness ==
    /\ lastOp.op \in WebhookHandlerNames
    /\ lastOp.arg.header = None
    /\ \E h \in WebhookHandlers :
          h.name = lastOp.op /\ FromSlice(h.payload, lastOp.arg.body).tag = "Ok"
    /\ lastOp.res.status = 401
    /\ lastOp.res.steps = <<"verify">>

\* C12: verify_webhook(body, signature, secret) is true exactly when the
\* signature, with or without one leading "sha256=", is the hex HMAC-SHA256 of
\* the body under the secret; every single-character mutation of that digest
\* verifies false.
C12_VerifyWebhook ==
    lastOp.op = "verify_webhook" =>
        LET a == lastOp.arg
            digest == HmacSha256Hex(a.secret, a.body)
        IN  /\ lastOp.res <=> a.signature \in {digest, "sha256=" \o digest}
            /\ a.signature \in MutationsOf(digest) => ~lastOp.res

\* the prefixed digest of the test's body under the test's secret verified
C12_Witness ==
    /\ lastOp.op = "verify_webhook"
    /\ lastOp.arg.secret = "test_webhook_secret"
    /\ lastOp.arg.body = TestPayload
    /\ lastOp.arg.signature =
          "sha256=" \o HmacSha256Hex("test_webhook_secret", TestPayload)
    /\ lastOp.res

\* C24: verify_webhook compares the computed and the supplied digest in
\* constant time: for a supplied signature of full length the bytes the
\* comparison reads do not depend on how long a prefix of it is correct, so
\* in every build (whatever the width of the loads of its memcmp) every
\* digest with one wrong character costs what the one whose first character
\* is wrong costs.
C24_ConstantTime ==
    lastOp.op = "verify_webhook" =>
        LET a == lastOp.arg
            digest == HmacSha256Hex(a.secret, a.body)
        IN  a.signature \in MutationsOf(digest)
              => \A width \in LoadWidths :
                    VerifyWebhookCost(a.body, a.signature, a.secret, width)
                      = VerifyWebhookCost(a.body, Mutated(digest, 1), a.secret,
                                          width)

----------------------------------------------------------------------------
(* Claims about the cipher *)

\* C13 (round trip): a plaintext encrypted by the cipher of a 32-byte key
\* and decrypted by a cipher of the same key comes back unchanged, whichever
\* nonce was drawn.
C13_RoundTrip ==
    (/\ lastOp.op = "cipher_round"
     /\ Len(lastOp.arg.key1) = KeyLen
     /\ lastOp.arg.key2 = lastOp.arg.key1)
    => lastOp.res = [tag |-> "Ok", val |-> lastOp.arg.plaintext]

\* the token of test_token_encryption_decryption went round under one key
C13_Witness ==
    /\ lastOp.op = "cipher_round"
    /\ lastOp.arg.key1 = lastOp.arg.key2
    /\ lastOp.arg.plaintext = "shpat_test_token_12345"
    /\ lastOp.res = [tag |-> "Ok", val |-> "shpat_test_token_12345"]

\* C14 (key mismatch): a plaintext encrypted under one 32-byte key and
\* decrypted under a different 32-byte key yields an error and no plaintext.
C14_KeyMismatch ==
    (/\ lastOp.op = "cipher_round"
     /\ Len(lastOp.arg.key1) = KeyLen
     /\ Len(lastOp.arg.key2) = KeyLen
     /\ lastOp.arg.key1 # lastOp.arg.key2)
    => lastOp.res.tag = "Err"

\* both ciphers were built, the first encrypted, the second refused
C14_Witness ==
    /\ lastOp.op = "cipher_round"
    /\ lastOp.pre.new1 = "Ok" /\ lastOp.pre.new2 = "Ok"
    /\ lastOp.arg.key1 # lastOp.arg.key2
    /\ lastOp.res = [tag |-> "Err", val |-> "Decryption failed"]

\* C15 (key length): TokenEncryption::new and TokenStore::new return an error
\* for every key that is not exactly 32 bytes long, nothing is encrypted
\* with such a key, and a token store that exists has a 32-byte key.
C15_KeyLength ==
    /\ lastOp.op = "cipher_round" =>
          /\ Len(lastOp.arg.key1) # KeyLen =>
                lastOp.pre.new1 = "Err" /\ ~lastOp.pre.encrypted
          /\ Len(lastOp.arg.key2) # KeyLen => lastOp.pre.new2 = "Err"
          /\ lastOp.res.tag = "Ok" =>
                Len(lastOp.arg.key1) = KeyLen /\ Len(lastOp.arg.key2) = KeyLen
    /\ lastOp.op = "TokenStore::new" =>
          (lastOp.res = "Err" <=> Len(lastOp.arg) # KeyLen)
    /\ key # None => Len(key) = KeyLen

\* a start with a 33-byte key: TokenStore::new failed and no store exists
C15_Witness ==
    /\ lastOp.op = "TokenStore::new"
    /\ Len(lastOp.arg) = KeyLen + 1
    /\ lastOp.res = "Err"
    /\ key = None

----------------------------------------------------------------------------
(* Claims about the sweep *)

\* C16: cleanup_expired_states deletes every record with expires_at <= now
\* and no record with expires_at > now, and returns the number of records
\* it deleted.
C16_Sweep ==
    lastOp.op = "cleanup_expired_states" =>
        /\ oauth_states = {r \in lastOp.pre.rows : r.expires_at > lastOp.pre.now}
        /\ lastOp.res = Cardinality(lastOp.pre.rows \ oauth_states)

\* a sweep that found an expired and an unexpired record: it deleted the
\* first, kept the second and returned 1
C16_Witness ==
    /\ lastOp.op = "cleanup_expired_states"
    /\ \E r \in lastOp.pre.rows : r.expires_at <= lastOp.pre.now
    /\ \E r \in lastOp.pre.rows : r.expires_at > lastOp.pre.now
    /\ lastOp.res = 1
    /\ Cardinality(oauth_states) = 1

\* the record the token of operation o would have if no sweep had ever run:
\* the one its store_state inserted, unless a validation consumed it
UnsweptRows(o) ==
    IF o.pre.issued # NoIssue /\ ~o.pre.consumed
    THEN {[state_token |-> o.arg, expires_at |-> o.pre.issued.exp]}
    ELSE {}

\* C17: whatever sweeps ran before it, a validation returns what it would
\* return on the store no sweep ever touched (read while the database clock
\* still shows the time of the validation).
C17_SweepInvisible ==
    (IsValidate(lastOp) /\ lastOp.res # "panic" /\ dbNow = lastOp.pre.now) =>
        (lastOp.res = "Ok(true)" <=>
            \E r \in UnsweptRows(lastOp) : StateRowValid(r, lastOp.arg))

\* a validation of an issued, never validated token whose expired record a
\* sweep had removed: false, as it would be for the unswept record
C17_Witness ==
    /\ IsValidate(lastOp)
    /\ lastOp.pre.issued # NoIssue
    /\ ~lastOp.pre.consumed
    /\ lastOp.pre.rows = {}
    /\ lastOp.pre.issued.exp <= lastOp.pre.now
    /\ dbNow = lastOp.pre.now
    /\ lastOp.res = "Ok(false)"

\* C18 as stated: every state record is eventually removed, by a validation
\* or, once expired, by the periodic sweep, as long as the sweep task keeps
\* being scheduled.
C18_EventuallyRemoved ==
    \A tok \in UuidTokens : StateTokenTaken(tok) ~> ~StateTokenTaken(tok)

\* the operation executed last is a sweep whose statement the database
\* executed
SweepExecuted == lastOp.op = "cleanup_expired_states"

\* C18 (amended): when the sweep task keeps being scheduled and, again and
\* again, one of its iterations has its statement executed by the database,
\* every state record is eventually removed, by a validation or, once
\* expired, by the sweep.
C18_RemovedWhileSwept ==
    []<>SweepExecuted
        => \A tok \in UuidTokens : StateTokenTaken(tok) ~> ~StateTokenTaken(tok)

\* after an iteration whose statement failed, a sweep removed the only
\* record of the store, one no validation consumed
C18_Witness ==
    /\ sweeper.failed
    /\ lastOp.op = "cleanup_expired_states"
    /\ lastOp.res >= 1
    /\ oauth_states = {}
    /\ \A r \in lastOp.pre.rows : r.state_token \notin consumed

----------------------------------------------------------------------------
(* Further claims about the StateStore and the TokenStore *)

\* C19: a validation of a token that was never issued, of a token that has
\* expired and of a token that was already consumed all give the same
\* result, Ok(false).
C19_Indistinguishable ==
    (/\ IsValidate(lastOp)
     /\ \/ lastOp.pre.issued = NoIssue
        \/ lastOp.pre.consumed
        \/ lastOp.pre.issued.exp <= lastOp.pre.now)
    => lastOp.res = "Ok(false)"

\* a step that repeats the store_token call made last, with the same shop,
\* access token and scope
RetriedStore ==
    /\ lastOp.op = "store_token"
    /\ lastOp'.op = "store_token"
    /\ lastOp'.arg = lastOp.arg
    /\ lastOp'.pre.token = lastOp.pre.token
    /\ lastOp'.pre.scope = lastOp.pre.scope

\* C20 as stated: calling store_token twice with the same arguments leaves
\* the persisted state a single call leaves.
C20_Idempotent == [][RetriedStore => shopify_tokens' = shopify_tokens]_vars

\* what the token table holds for its readers: per record the shop, the
\* access token get_token decrypts and the scope
TokenView ==
    {[shop_domain |-> r.shop_domain,
      access_token |-> decrypt(r.encrypted_access_token),
      scope |-> r.scope] : r \in shopify_tokens}

\* C20 as amended: calling store_token twice with the same arguments leaves
\* the same records, with the same decrypted access token and scope, as a
\* single call; only the ciphertext and updated_at may differ.
C20_IdempotentView ==
    [][RetriedStore =>
          /\ TokenView' = TokenView
          /\ Cardinality(shopify_tokens') = Cardinality(shopify_tokens)]_vars

\* a store_token call for a shop that already held this token with this
\* scope: one record, the same token, a ciphertext under the nonce drawn now
C20_Witness ==
    /\ lastOp.op = "store_token"
    /\ lastOp.pre.had = lastOp.pre.token
    /\ lastOp.pre.hadScope = lastOp.pre.scope
    /\ Cardinality(TokenRows(lastOp.arg)) = 1
    /\ GetToken(lastOp.arg) = [tag |-> "Some", val |-> lastOp.pre.token]
    /\ ScopeFor(lastOp.arg) = lastOp.pre.scope


----------------------------------------------------------------------------
(* The in-memory rate limiter *)

IsCheck(o) == o.op = "check_rate_limit"

\* C23: for an identifier without an entry and calls that all pass the same
\* limit L, within one window exactly the first L calls return true: a call
\* is admitted if and only if fewer than L calls of the window came before it.
C23_FirstL ==
    (IsCheck(lastOp) /\ lastOp.pre.fixed)
        => (lastOp.res = "Ok(true)" <=> lastOp.pre.calls < lastOp.pre.limit)

\* the same for the limits of at least 1
C23_FirstLPositive ==
    (IsCheck(lastOp) /\ lastOp.pre.fixed /\ lastOp.pre.limit >= 1)
        => (lastOp.res = "Ok(true)" <=> lastOp.pre.calls < lastOp.pre.limit)

\* the entry of the call's identifier had expired (or never existed)
WindowOver(p) == \A x \in p.entry : p.now - x.timestamp >= RateWindow

\* C30: a rejected call leaves the identifier's counter and timestamp as they
\* were; a call admitted inside an open window counts one more and keeps the
\* timestamp of the window's first admitted call; once 60 seconds have passed
\* since that call the entry is gone and a call with a limit of at least 1
\* returns true and opens a window at its own instant.
C30_Window ==
    IsCheck(lastOp) =>
        LET p == lastOp.pre
            e == EntryOf(memory_store, lastOp.arg)
        IN  /\ lastOp.res = "Ok(false)" => e = p.entry
            /\ (lastOp.res = "Ok(true)" /\ ~WindowOver(p))
                  => e = {[count |-> x.count + 1, timestamp |-> x.timestamp] :
                             x \in p.entry}
            /\ (WindowOver(p) /\ p.limit >= 1)
                  => /\ lastOp.res = "Ok(true)"
                     /\ e = {[count |-> 1, timestamp |-> p.now]}

\* a call was rejected in a window, and after the window has run out a call
\* with the same limit is admitted
C30_Witness ==
    /\ IsCheck(lastOp)
    /\ lastOp.res = "Ok(true)"
    /\ lastOp.pre.limit >= 1
    /\ \E x \in lastOp.pre.entry :
          /\ x.count >= lastOp.pre.limit
          /\ lastOp.pre.now - x.timestamp >= RateWindow
    /\ asked[lastOp.arg].calls = 1

----------------------------------------------------------------------------
(* The background task of the sweep *)

\* C25: a failed iteration does not stop the background task: after any
\* failure the task is still in its loop, so the sweep runs again at the
\* next tick.
C25_TaskSurvives ==
    /\ sweeper.failed => sweeper.state = "running" /\ ENABLED cleanup_task
    /\ (lastOp.op = "cleanup_task" /\ lastOp.res = "Err")
          => sweeper.failed

\* an iteration failed, and a later iteration swept an expired record
C25_Witness ==
    /\ sweeper.failed
    /\ lastOp.op = "cleanup_expired_states"
    /\ lastOp.res >= 1


----------------------------------------------------------------------------
(* More claims about oauth_callback *)

DefinedResponses ==
    {"oauth_error", "missing_code", "security_error", "system_error",
     "exchange_failed", "storage_error", "success"}

\* C26: every callback request ends in one of the defined responses, whatever
\* state, code and access token it meets, so no request consumes a state
\* token or stores a token and then ends without a response.
C26_AlwaysResponds ==
    \A r \in Requests : req[r].pc = "done" => req[r].resp \in DefinedResponses

EarlyExits == {"oauth_error", "missing_code"}

\* the step in which request r arrives and returns before the CSRF check
EarlyExit(r) ==
    /\ req[r].pc = "idle"
    /\ req'[r].pc = "done"
    /\ req'[r].resp \in EarlyExits

\* C27: a callback that returns before the CSRF check, for an error
\* parameter or a missing code, leaves the state store as it was: the state
\* token it carries is not consumed and is as valid afterwards as before.
C27_EarlyExit ==
    [][\A r \in Requests :
          EarlyExit(r) => /\ oauth_states' = oauth_states
                          /\ consumed' = consumed
                          /\ \A tok \in StateParams : IsValid(tok)' = IsValid(tok)
      ]_vars

\* a callback carrying an issued state returned early, and the state is
\* still stored and valid for a later callback
C27_Witness ==
    /\ lastOp.op = "oauth_callback"
    /\ lastOp.res \in EarlyExits
    /\ lastOp.arg \in UuidTokens
    /\ IsValid(lastOp.arg)
    /\ \E r \in Requests : req[r].pc = "done" /\ req[r].resp = lastOp.res

\* the step in which request r stores its token
StoredBy(r) == req[r].pc = "store" /\ req'[r].stored

\* C29: a successful callback stores the token under the shop its shop
\* parameter names, or under the configured shop when there is none, and
\* changes the record of no other shop; the proxy handlers read the token of
\* the configured shop, so a callback for another shop leaves what they see
\* unchanged.
C29_OtherShops ==
    [][\A r \in Requests :
          StoredBy(r) =>
            /\ req[r].shop = IF req[r].shop_param = None THEN ConfigShop
                                                         ELSE req[r].shop_param
            /\ GetToken(req[r].shop)' =
                    [tag |-> "Some", val |-> req[r].access_token]
            /\ \A s \in Shops \ {req[r].shop} : TokenRows(s)' = TokenRows(s)
            /\ req[r].shop # ConfigShop
                  => \A dbOk \in BOOLEAN :
                       /\ HandlerState(dbOk)' = HandlerState(dbOk)
                       /\ OrdersResponse(dbOk)' = OrdersResponse(dbOk)
                       /\ ApiGetToken(ConfigShop, dbOk)' =
                              ApiGetToken(ConfigShop, dbOk)
                       /\ MainGetToken(ConfigShop, dbOk)' =
                              MainGetToken(ConfigShop, dbOk)
      ]_vars

\* a callback stored a token for another shop, and a proxy handler still
\* finds no token for the configured shop
C29_Witness ==
    /\ lastOp.op = "orders_handler"
    /\ lastOp.res = NoTokenResponse
    /\ lastOp.pre.rows = {}
    /\ \E r \in Requests :
          /\ req[r].stored
          /\ req[r].shop_param # None
          /\ req[r].shop = req[r].shop_param
          /\ TokenRows(req[r].shop) # {}


----------------------------------------------------------------------------
(* The frame of validate_and_remove_state *)

\* C28: validate_and_remove_state(S) changes at most the record of S: the
\* records of all other state tokens stay, none is added, and when the call
\* does not return true the whole store is as before, so an expired record
\* of S stays where it is.
C28_Frame ==
    [][IsValidate(lastOp') =>
          /\ oauth_states' \subseteq oauth_states
          /\ \A r \in oauth_states :
                r.state_token # lastOp'.arg => r \in oauth_states'
          /\ lastOp'.res # "Ok(true)" => oauth_states' = oauth_states
      ]_vars

\* a validation of an expired state returned false and its record is still
\* stored, next to the record of another state
C28_Witness ==
    /\ IsValidate(lastOp)
    /\ lastOp.res = "Ok(false)"
    /\ lastOp.pre.rows # {}
    /\ lastOp.pre.rows \subseteq oauth_states
    /\ \E r \in oauth_states : r.state_token # lastOp.arg


----------------------------------------------------------------------------
(* More claims about the token store *)

\* the callers whose store_token for the shop has been executed
StoredOn(shop) ==
    {c \in Callers : caller[c].pc = "done" /\ caller[c].shop = shop}

\* C21: concurrent store_token calls for one shop are last-write-wins: once
\* calls for the shop have been executed there is exactly one record for it,
\* its token and its scope are those of one single call, and that call is
\* the one executed last.
C21_LastWriteWins ==
    \A shop \in Shops :
        StoredOn(shop) # {} =>
            /\ Cardinality(TokenRows(shop)) = 1
            /\ \E c \in StoredOn(shop) : \A r \in TokenRows(shop) :
                    /\ r.encrypted_access_token = caller[c].encrypted_token
                    /\ r.scope = caller[c].scope
                    /\ GetToken(shop) = [tag |-> "Some", val |-> caller[c].token]
            /\ (lastOp.op = "store_token" /\ lastOp.arg = shop)
                  => \A r \in TokenRows(shop) :
                        /\ r.scope = lastOp.pre.scope
                        /\ GetToken(shop) =
                              [tag |-> "Some", val |-> lastOp.pre.token]

\* two calls for one shop with different tokens and different scopes were
\* in flight together and both have been executed
C21_Witness ==
    \E c, d \in Callers :
        /\ c # d
        /\ caller[c].pc = "done" /\ caller[d].pc = "done"
        /\ caller[c].shop = caller[d].shop
        /\ caller[c].token # caller[d].token
        /\ caller[c].scope # caller[d].scope
        /\ caller[c].raced
        /\ lastOp.op = "store_token" /\ lastOp.pre.had # None

IsList(o) == o.op = "list_shops" /\ o.res.tag = "Ok"

\* updated_at of the record a shop had when the list was read
UpdatedAtIn(rows, shop) ==
    (CHOOSE r \in rows : r.shop_domain = shop).updated_at

\* C22: list_shops returns every shop that has a record exactly once, in
\* descending order of updated_at, so a shop whose token was stored or
\* stored again after every other record was last written comes first.
C22_ListShops ==
    IsList(lastOp) =>
        LET l == lastOp.res.shops
            rows == lastOp.pre.rows
            prev == lastOp.pre.prev
        IN  /\ {l[i] : i \in DOMAIN l} = {r.shop_domain : r \in rows}
            /\ \A i, j \in DOMAIN l : i # j => l[i] # l[j]
            /\ \A i, j \in DOMAIN l :
                  i < j => UpdatedAtIn(rows, l[i]) >= UpdatedAtIn(rows, l[j])
            /\ (/\ prev.shop # None
                /\ \A r \in rows :
                      r.shop_domain # prev.shop => r.updated_at < prev.at)
                  => l[1] = prev.shop

\* a shop stored first and stored again after the other shop is listed first
C22_Witness ==
    /\ IsList(lastOp)
    /\ Len(lastOp.res.shops) = 2
    /\ lastOp.pre.prev.again
    /\ lastOp.res.shops[1] = lastOp.pre.prev.shop
    /\ UpdatedAtIn(lastOp.pre.rows, lastOp.res.shops[2]) < lastOp.pre.prev.at

====
